---- MODULE Spec2Model ----
(***************************************************************************)
(* LetsGoal: the goal lifecycle and progress-aggregation engine.           *)
(*                                                                         *)
(* The state is the content of the tables goals, subgoals and goal_shares  *)
(* (src/backend/models.py), the calendar day that date.today() returns,    *)
(* the HTTP response of the request handled last, and the ORM sessions of  *)
(* the requests in flight.  Every request handler of src/backend/app.py is *)
(* one action: a handler runs to its commit (or to its early return)       *)
(* before the next request is taken.  update_subgoal is also given step by *)
(* step, from its loads to its commit, for the specification in which two  *)
(* requests are served at the same time.                                   *)
(* The specifications at the end differ in the requests the environment    *)
(* sends, never in what a handler does with a request.                     *)
(*                                                                         *)
(* Columns that no handler reads back when it decides a status, a date or  *)
(* a permission (title, description, target_date, order_index, created_at, *)
(* updated_at) are not part of the state; a request that edits only those  *)
(* columns is the request that carries no status.                          *)
(***************************************************************************)
EXTENDS Integers, Sequences, FiniteSets

(***************************************************************************)
(* Bounds of the model.                                                    *)
(***************************************************************************)
\* Rows the tables goals, subgoals and goal_shares may hold, and the days the
\* calendar runs through.
MaxGoals == 1
MaxSubgoals == 3
MaxShares == 2
MaxDay == 2
\* The largest subgoal count of the progress specification.
MaxTotal == 51
\* The largest subgoal count of the checklist scenario.
MaxChecklist == 5
\* Subgoal rows in the sharing specification.
MaxSharedSubgoals == 1
\* Goal and subgoal rows in the deletion specification.
MaxDeletionGoals == 2
MaxDeletionSubgoals == 2
\* Goal rows in the listing specification.
MaxListedGoals == 2
\* Rows of the table progress_entries.
MaxEntries == 2
\* The largest subgoal count of the derivation specification.
MaxDerivationTotal == 101

(***************************************************************************)
(* Values.                                                                 *)
(***************************************************************************)
\* A NULL date column (models.py: achieved_date, archived_date).
NoDate == 0
\* A field that a request's JSON body does not carry (data.get(..) is falsy).
Absent == "absent"
\* A NULL foreign key / a lookup that found no row.
NoUser == "nobody"

Users == {"alice", "bob", "carol"}
\* The e-mail addresses a share request may name: each user's, one that
\* belongs to no user, and one that is a user's in other case and spacing.
Emails == Users \cup {"stranger", " Bob "}

GoalStatuses == {"created", "started", "working", "completed", "archived"}
SubgoalStatuses == {"pending", "achieved"}
\* What a request may send as "status": the handlers store any non-empty string.
GoalStatusInputs == GoalStatuses \cup {"in_progress"}
SubgoalStatusInputs == SubgoalStatuses \cup {"skipped"}
PermissionInputs == {"edit", "view", "admin", Absent}

\* The tags table: tags are created per user; "Shared" is the tag share_goal
\* attaches when the owner has one.
Tags == {[id |-> 1, user_id |-> "alice", name |-> "Shared"],
         [id |-> 2, user_id |-> "bob", name |-> "Work"]}
TagIds == {t.id : t \in Tags}

\* The requests that may be in flight at the same time.
Requests == {"r1", "r2"}

\* The ORM session of a request that is not being served.
Idle == [pc |-> "idle"]

VARIABLES goals, subgoals, shares, today, last, session

vars == <<goals, subgoals, shares, today, last, session>>

(***************************************************************************)
(* IEEE-754 double arithmetic, as far as int((a / b) * 100) needs it.      *)
(* A significand is a sequence <<d0, d1, d2, d3, d4>> of base-2^13 digits, *)
(* d0 the integer part and d1..d4 the 52 fraction bits; a positive double  *)
(* is <<significand, s>> and its value is significand * 2^(-s).            *)
(***************************************************************************)
Limb == 2 ^ 13

\* Least s with a * 2^s >= b (a, b > 0).
RECURSIVE NormShift(_, _, _)
NormShift(a, b, s) == IF a * (2 ^ s) >= b THEN s ELSE NormShift(a, b, s + 1)

\* n more base-2^13 digits of r / b (0 <= r < b): <<digits, remainder>>.
RECURSIVE DivLimbs(_, _, _)
DivLimbs(r, b, n) ==
    IF n = 0 THEN <<(<< >>), r>>
    ELSE LET rest == DivLimbs((r * Limb) % b, b, n - 1)
         IN <<(<<(r * Limb) \div b>>) \o rest[1], rest[2]>>

\* The significand m with inc added to digit i, the carry going up.
RECURSIVE AddAt(_, _, _)
AddAt(m, i, inc) ==
    IF i = 1 \/ m[i] + inc < Limb THEN [m EXCEPT ![i] = m[i] + inc]
    ELSE AddAt([m EXCEPT ![i] = m[i] + inc - Limb], i - 1, 1)

\* a / b for integers 0 < a <= b, as float division gives it: the quotient
\* to 53 bits, rounded to nearest, ties to even.
FloatDiv(a, b) ==
    LET s == NormShift(a, b, 0)
        d == DivLimbs(a * (2 ^ s) - b, b, 4)
        m == (<<1>>) \o d[1]
        up == 2 * d[2] > b \/ (2 * d[2] = b /\ m[5] % 2 = 1)
    IN <<IF up THEN AddAt(m, 5, 1) ELSE m, s>>

\* The significand m times the small natural k, digit by digit from the
\* last; the first digit takes what is left.
RECURSIVE MulLimbs(_, _, _, _)
MulLimbs(m, k, i, carry) ==
    LET v == m[i] * k + carry
    IN IF i = 1 THEN [m EXCEPT ![1] = v]
       ELSE MulLimbs([m EXCEPT ![i] = v % Limb], k, i - 1, v \div Limb)

\* x * 100 for a double x with significand in [1, 2], as float
\* multiplication gives it: the exact product has 59 or 60 bits, and its
\* last 6 or 7 are rounded away, to nearest, ties to even.
FloatMul100(x) ==
    LET p == MulLimbs(x[1], 100, 5, 0)
        cut == IF p[1] >= 128 THEN 7 ELSE 6
        low == p[5] % (2 ^ cut)
        half == 2 ^ (cut - 1)
        kept == [p EXCEPT ![5] = p[5] - low]
        up == low > half \/ (low = half /\ (p[5] \div (2 ^ cut)) % 2 = 1)
    IN <<IF up THEN AddAt(kept, 5, 2 ^ cut) ELSE kept, x[2]>>

\* int(x) for a positive double x: what stands before the binary point.
FloatToInt(x) == x[1][1] \div (2 ^ x[2])

\* int((a / b) * 100) for integers 0 <= a <= b, b > 0.
IntPercent(a, b) ==
    IF a = 0 THEN 0 ELSE FloatToInt(FloatMul100(FloatDiv(a, b)))

(***************************************************************************)
(* Tables and predicates (src/backend/models.py).                          *)
(***************************************************************************)
Max(S) == CHOOSE x \in S : \A y \in S : y <= x

\* The primary key a new row gets: one past the largest in the table.
NewId(used) == IF used = {} THEN 1 ELSE Max(used) + 1

GoalIds == DOMAIN goals
SubgoalIds == DOMAIN subgoals

\* Goal.subgoals: the subgoal rows of goal g.
SubgoalsOf(g) == {s \in SubgoalIds : subgoals[s].goal_id = g}

\* Goal.shares (the backref of GoalShare.goal).
SharesOf(g) == {s \in shares : s.goal_id = g}

\* is_owner that also takes the holder of an edit share for the owner.
is_owner_or_editor(g, user_id) ==
    IF user_id = NoUser THEN FALSE
    ELSE \/ goals[g].owner_id = user_id
         \/ \E share \in SharesOf(g) :
               /\ share.shared_with_user_id = user_id
               /\ share.permission_level = "edit"

is_owner(g, user_id) ==
    IF user_id = NoUser THEN FALSE ELSE goals[g].owner_id = user_id

\* can_access that leaves out the holders of a view share.
can_access_edit_shares(g, user_id) ==
    IF user_id = NoUser THEN FALSE
    ELSE IF is_owner(g, user_id) THEN TRUE
    ELSE \E share \in SharesOf(g) :
            /\ share.shared_with_user_id = user_id
            /\ share.permission_level = "edit"

can_access(g, user_id) ==
    IF user_id = NoUser THEN FALSE
    ELSE IF is_owner(g, user_id) THEN TRUE
    ELSE \E share \in SharesOf(g) : share.shared_with_user_id = user_id

\* can_edit that takes a share of any level for the right to edit.
can_edit_any_share(g, user_id) ==
    IF user_id = NoUser THEN FALSE
    ELSE IF is_owner(g, user_id) THEN TRUE
    ELSE \E share \in SharesOf(g) : share.shared_with_user_id = user_id

can_edit(g, user_id) ==
    IF user_id = NoUser THEN FALSE
    ELSE IF is_owner(g, user_id) THEN TRUE
    ELSE \E share \in SharesOf(g) :
            /\ share.shared_with_user_id = user_id
            /\ share.permission_level = "edit"

\* Goal.calculate_progress on a goal with the given status and subgoal counts.
Progress(status, achieved_count, total_count) ==
    IF status = "completed" THEN 100
    ELSE IF total_count > 0 THEN IntPercent(achieved_count, total_count)
    ELSE 0

calculate_progress(g) ==
    Progress(goals[g].status,
             Cardinality({s \in SubgoalsOf(g) : subgoals[s].status = "achieved"}),
             Cardinality(SubgoalsOf(g)))

\* email.strip().lower(): the address as the lookup of share_goal takes it.
NormalizeEmail(email) == IF email = " Bob " THEN "bob" ELSE email

\* User.query.filter_by(email=...).first()
UserByEmail(email) == IF email \in Users THEN email ELSE NoUser

\* DeriveGoal with the first two rules in the other order: the "started"
\* rule tested before the completion rule.
DeriveGoalStartedFirst(goal, achieved_count, total_count, day) ==
    LET progress == IF total_count > 0
                    THEN IntPercent(achieved_count, total_count) ELSE 0
    IN IF achieved_count = 1 /\ goal.status = "created"
       THEN [goal EXCEPT !.status = "started"]
       ELSE IF progress = 100 /\ goal.status # "completed"
       THEN [goal EXCEPT !.status = "completed", !.achieved_date = day]
       ELSE IF achieved_count >= 2 /\ goal.status \in {"created", "started"}
       THEN [goal EXCEPT !.status = "working"]
       ELSE IF progress = 0
       THEN [goal EXCEPT !.status = "created", !.achieved_date = NoDate]
       ELSE goal

\* DeriveGoal whose last rule sets the goal back to created and keeps its
\* achieved_date.
DeriveGoalKeepsDate(goal, achieved_count, total_count, day) ==
    LET progress == IF total_count > 0
                    THEN IntPercent(achieved_count, total_count) ELSE 0
    IN IF progress = 100 /\ goal.status # "completed"
       THEN [goal EXCEPT !.status = "completed", !.achieved_date = day]
       ELSE IF achieved_count = 1 /\ goal.status = "created"
       THEN [goal EXCEPT !.status = "started"]
       ELSE IF achieved_count >= 2 /\ goal.status \in {"created", "started"}
       THEN [goal EXCEPT !.status = "working"]
       ELSE IF progress = 0
       THEN [goal EXCEPT !.status = "created"]
       ELSE goal

\* DeriveGoal that completes the goal from half of its subgoals on.
DeriveGoalCompletesAtHalf(goal, achieved_count, total_count, day) ==
    LET progress == IF total_count > 0
                    THEN IntPercent(achieved_count, total_count) ELSE 0
    IN IF progress >= 50 /\ goal.status # "completed"
       THEN [goal EXCEPT !.status = "completed", !.achieved_date = day]
       ELSE IF achieved_count = 1 /\ goal.status = "created"
       THEN [goal EXCEPT !.status = "started"]
       ELSE IF achieved_count >= 2 /\ goal.status \in {"created", "started"}
       THEN [goal EXCEPT !.status = "working"]
       ELSE IF progress = 0
       THEN [goal EXCEPT !.status = "created", !.achieved_date = NoDate]
       ELSE goal

(***************************************************************************)
(* The goal-status derivation of update_subgoal: the goal row after it,    *)
(* given the counts over the goal's subgoals and the current day.          *)
(***************************************************************************)
DeriveGoal(goal, achieved_count, total_count, day) ==
    LET progress == IF total_count > 0
                    THEN IntPercent(achieved_count, total_count) ELSE 0
    IN IF progress = 100 /\ goal.status # "completed"
       THEN [goal EXCEPT !.status = "completed", !.achieved_date = day]
       ELSE IF achieved_count = 1 /\ goal.status = "created"
       THEN [goal EXCEPT !.status = "started"]
       ELSE IF achieved_count >= 2 /\ goal.status \in {"created", "started"}
       THEN [goal EXCEPT !.status = "working"]
       ELSE IF progress = 0
       THEN [goal EXCEPT !.status = "created", !.achieved_date = NoDate]
       ELSE goal

(***************************************************************************)
(* Initial state: empty tables.                                            *)
(***************************************************************************)
Reply(op, code) == last' = [op |-> op, code |-> code]

Init ==
    /\ goals = << >>
    /\ subgoals = << >>
    /\ shares = {}
    /\ today = 1
    /\ last = [op |-> "none", code |-> 0]
    /\ session = [r \in Requests |-> Idle]

\* date.today() moves on.
Tick ==
    /\ today < MaxDay
    /\ today' = today + 1
    /\ Reply("tick", 0)
    /\ UNCHANGED <<goals, subgoals, shares, session>>

(***************************************************************************)
(* Goal handlers (src/backend/app.py).                                     *)
(***************************************************************************)
\* create_goal that leaves the nullable owner_id column unset.
create_goal_without_owner(user, has_title) ==
    IF ~has_title
    THEN Reply("create_goal", 400) /\ UNCHANGED <<goals, subgoals, shares, today, session>>
    ELSE LET id == NewId(GoalIds)
         IN /\ goals' = [g \in GoalIds \cup {id} |->
                            IF g = id
                            THEN [user_id |-> user, owner_id |-> NoUser,
                                  status |-> "created", achieved_date |-> NoDate,
                                  archived_date |-> NoDate, tags |-> {},
                                  progress_entries |-> {}]
                            ELSE goals[g]]
            /\ Reply("create_goal", 201)
            /\ UNCHANGED <<subgoals, shares, today, session>>

\* POST /api/goals
create_goal(user, has_title) ==
    IF ~has_title
    THEN Reply("create_goal", 400) /\ UNCHANGED <<goals, subgoals, shares, today, session>>
    ELSE LET id == NewId(GoalIds)
         IN /\ goals' = [g \in GoalIds \cup {id} |->
                            IF g = id
                            THEN [user_id |-> user, owner_id |-> user,
                                  status |-> "created", achieved_date |-> NoDate,
                                  archived_date |-> NoDate, tags |-> {},
                                  progress_entries |-> {}]
                            ELSE goals[g]]
            /\ Reply("create_goal", 201)
            /\ UNCHANGED <<subgoals, shares, today, session>>

\* SetGoalStatus without the branch that clears achieved_date.
SetGoalStatusKeepsDate(goal, status, day) ==
    IF status # Absent /\ status # goal.status
    THEN [goal EXCEPT
            !.status = status,
            !.achieved_date =
                IF status = "completed" /\ goal.achieved_date = NoDate THEN day
                ELSE goal.achieved_date]
    ELSE goal

\* The status part of PUT /api/goals/<id> applied to a goal row.
SetGoalStatus(goal, status, day) ==
    IF status # Absent /\ status # goal.status
    THEN [goal EXCEPT
            !.status = status,
            !.achieved_date =
                IF status = "completed" /\ goal.achieved_date = NoDate THEN day
                ELSE IF status # "completed" /\ goal.achieved_date # NoDate
                THEN NoDate
                ELSE goal.achieved_date]
    ELSE goal

\* PUT /api/goals/<id>
update_goal(user, g, status) ==
    IF g \notin GoalIds
    THEN Reply("update_goal", 404) /\ UNCHANGED <<goals, subgoals, shares, today, session>>
    ELSE IF ~can_edit(g, user)
    THEN Reply("update_goal", 403) /\ UNCHANGED <<goals, subgoals, shares, today, session>>
    ELSE /\ goals' = [goals EXCEPT ![g] = SetGoalStatus(goals[g], status, today)]
         /\ Reply("update_goal", 200)
         /\ UNCHANGED <<subgoals, shares, today, session>>

\* delete_goal that does not delete the goal's shares with the goal.
delete_goal_keeps_shares(user, g) ==
    IF g \notin GoalIds
    THEN Reply("delete_goal", 404) /\ UNCHANGED <<goals, subgoals, shares, today, session>>
    ELSE IF is_owner(g, user)
    THEN /\ shares' = shares
         /\ goals' = [x \in GoalIds \ {g} |-> goals[x]]
         /\ subgoals' = [s \in SubgoalIds \ SubgoalsOf(g) |-> subgoals[s]]
         /\ last' = [op |-> "delete_goal", code |-> 200,
                     message |-> "Goal deleted successfully"]
         /\ UNCHANGED <<today, session>>
    ELSE LET mine == {s \in SharesOf(g) : s.shared_with_user_id = user}
         IN IF mine = {}
            THEN Reply("delete_goal", 403)
                 /\ UNCHANGED <<goals, subgoals, shares, today, session>>
            ELSE /\ shares' = shares \ {CHOOSE s \in mine : \A o \in mine : s.id <= o.id}
                 /\ last' = [op |-> "delete_goal", code |-> 200,
                             message |-> "Goal removed from your shared goals"]
                 /\ UNCHANGED <<goals, subgoals, today, session>>

\* delete_goal that, for a user who is not the owner, removes every share of
\* the goal.
delete_goal_drops_all_shares(user, g) ==
    IF g \notin GoalIds
    THEN Reply("delete_goal", 404) /\ UNCHANGED <<goals, subgoals, shares, today, session>>
    ELSE IF is_owner(g, user)
    THEN /\ shares' = shares \ SharesOf(g)
         /\ goals' = [x \in GoalIds \ {g} |-> goals[x]]
         /\ subgoals' = [s \in SubgoalIds \ SubgoalsOf(g) |-> subgoals[s]]
         /\ last' = [op |-> "delete_goal", code |-> 200,
                     message |-> "Goal deleted successfully"]
         /\ UNCHANGED <<today, session>>
    ELSE LET mine == {s \in SharesOf(g) : s.shared_with_user_id = user}
         IN IF mine = {}
            THEN Reply("delete_goal", 403)
                 /\ UNCHANGED <<goals, subgoals, shares, today, session>>
            ELSE /\ shares' = shares \ SharesOf(g)
                 /\ last' = [op |-> "delete_goal", code |-> 200,
                             message |-> "Goal removed from your shared goals"]
                 /\ UNCHANGED <<goals, subgoals, today, session>>

\* DELETE /api/goals/<id>
delete_goal(user, g) ==
    IF g \notin GoalIds
    THEN Reply("delete_goal", 404) /\ UNCHANGED <<goals, subgoals, shares, today, session>>
    ELSE IF is_owner(g, user)
    THEN /\ shares' = shares \ SharesOf(g)
         /\ goals' = [x \in GoalIds \ {g} |-> goals[x]]
         /\ subgoals' = [s \in SubgoalIds \ SubgoalsOf(g) |-> subgoals[s]]
         /\ last' = [op |-> "delete_goal", code |-> 200,
                     message |-> "Goal deleted successfully"]
         /\ UNCHANGED <<today, session>>
    ELSE LET mine == {s \in SharesOf(g) : s.shared_with_user_id = user}
         IN IF mine = {}
            THEN Reply("delete_goal", 403)
                 /\ UNCHANGED <<goals, subgoals, shares, today, session>>
            ELSE /\ shares' = shares \ {CHOOSE s \in mine : \A o \in mine : s.id <= o.id}
                 /\ last' = [op |-> "delete_goal", code |-> 200,
                             message |-> "Goal removed from your shared goals"]
                 /\ UNCHANGED <<goals, subgoals, today, session>>

\* archive_goal without the check that the goal is completed.
archive_goal_unguarded(user, g) ==
    IF g \notin GoalIds
    THEN Reply("archive_goal", 404) /\ UNCHANGED <<goals, subgoals, shares, today, session>>
    ELSE IF ~can_edit(g, user)
    THEN Reply("archive_goal", 403) /\ UNCHANGED <<goals, subgoals, shares, today, session>>
    ELSE /\ goals' = [goals EXCEPT ![g].status = "archived",
                                   ![g].archived_date = today]
         /\ Reply("archive_goal", 200)
         /\ UNCHANGED <<subgoals, shares, today, session>>

\* PUT /api/goals/<id>/archive
archive_goal(user, g) ==
    IF g \notin GoalIds
    THEN Reply("archive_goal", 404) /\ UNCHANGED <<goals, subgoals, shares, today, session>>
    ELSE IF ~can_edit(g, user)
    THEN Reply("archive_goal", 403) /\ UNCHANGED <<goals, subgoals, shares, today, session>>
    ELSE IF goals[g].status # "completed"
    THEN Reply("archive_goal", 400) /\ UNCHANGED <<goals, subgoals, shares, today, session>>
    ELSE IF goals[g].status = "archived"
    THEN Reply("archive_goal", 400) /\ UNCHANGED <<goals, subgoals, shares, today, session>>
    ELSE /\ goals' = [goals EXCEPT ![g].status = "archived",
                                   ![g].archived_date = today]
         /\ Reply("archive_goal", 200)
         /\ UNCHANGED <<subgoals, shares, today, session>>

\* unarchive_goal that stamps achieved_date anew.
unarchive_goal_restamps(user, g) ==
    IF g \notin GoalIds
    THEN Reply("unarchive_goal", 404) /\ UNCHANGED <<goals, subgoals, shares, today, session>>
    ELSE IF ~can_edit(g, user)
    THEN Reply("unarchive_goal", 403) /\ UNCHANGED <<goals, subgoals, shares, today, session>>
    ELSE IF goals[g].status # "archived"
    THEN Reply("unarchive_goal", 400) /\ UNCHANGED <<goals, subgoals, shares, today, session>>
    ELSE /\ goals' = [goals EXCEPT ![g].status = "completed",
                                   ![g].archived_date = NoDate,
                                   ![g].achieved_date = today]
         /\ Reply("unarchive_goal", 200)
         /\ UNCHANGED <<subgoals, shares, today, session>>

\* PUT /api/goals/<id>/unarchive
unarchive_goal(user, g) ==
    IF g \notin GoalIds
    THEN Reply("unarchive_goal", 404) /\ UNCHANGED <<goals, subgoals, shares, today, session>>
    ELSE IF ~can_edit(g, user)
    THEN Reply("unarchive_goal", 403) /\ UNCHANGED <<goals, subgoals, shares, today, session>>
    ELSE IF goals[g].status # "archived"
    THEN Reply("unarchive_goal", 400) /\ UNCHANGED <<goals, subgoals, shares, today, session>>
    ELSE /\ goals' = [goals EXCEPT ![g].status = "completed",
                                   ![g].archived_date = NoDate]
         /\ Reply("unarchive_goal", 200)
         /\ UNCHANGED <<subgoals, shares, today, session>>

(***************************************************************************)
(* Subgoal handlers.                                                       *)
(***************************************************************************)
\* POST /api/goals/<id>/subgoals
create_subgoal(user, g, has_title) ==
    IF g \notin GoalIds
    THEN Reply("create_subgoal", 404) /\ UNCHANGED <<goals, subgoals, shares, today, session>>
    ELSE IF ~can_edit(g, user)
    THEN Reply("create_subgoal", 403) /\ UNCHANGED <<goals, subgoals, shares, today, session>>
    ELSE IF ~has_title
    THEN Reply("create_subgoal", 400) /\ UNCHANGED <<goals, subgoals, shares, today, session>>
    ELSE LET id == NewId(SubgoalIds)
         IN /\ subgoals' = [s \in SubgoalIds \cup {id} |->
                               IF s = id
                               THEN [goal_id |-> g, status |-> "pending",
                                     achieved_date |-> NoDate]
                               ELSE subgoals[s]]
            /\ Reply("create_subgoal", 201)
            /\ UNCHANGED <<goals, shares, today, session>>

\* SetSubgoalStatus without the branch that clears achieved_date.
SetSubgoalStatusKeepsDate(subgoal, status, day) ==
    IF status # Absent /\ status # subgoal.status
    THEN [subgoal EXCEPT
            !.status = status,
            !.achieved_date =
                IF status = "achieved" /\ subgoal.achieved_date = NoDate THEN day
                ELSE subgoal.achieved_date]
    ELSE subgoal

\* The status part of PUT /api/subgoals/<id> applied to a subgoal row.
SetSubgoalStatus(subgoal, status, day) ==
    IF status # Absent /\ status # subgoal.status
    THEN [subgoal EXCEPT
            !.status = status,
            !.achieved_date =
                IF status = "achieved" /\ subgoal.achieved_date = NoDate THEN day
                ELSE IF status = "pending" /\ subgoal.achieved_date # NoDate
                THEN NoDate
                ELSE subgoal.achieved_date]
    ELSE subgoal

\* AchievedCount from the rows as they were before the edit: the edited
\* subgoal's new status is not counted.
AchievedCountStale(rows, ids, sid, status) ==
    Cardinality({s \in ids \ {sid} : rows[s].status = "achieved"})

\* achieved_count as update_subgoal counts it, over the subgoal rows `rows`
\* of the goal (the edited row sid already holding its new status).
AchievedCount(rows, ids, sid, status) ==
    Cardinality({s \in ids : rows[s].status = "achieved"
                             \/ (s = sid /\ status = "achieved")})

\* PUT /api/subgoals/<id>
update_subgoal(user, sid, status) ==
    IF sid \notin SubgoalIds
    THEN Reply("update_subgoal", 404) /\ UNCHANGED <<goals, subgoals, shares, today, session>>
    ELSE LET g == subgoals[sid].goal_id
             edited == [subgoals EXCEPT
                          ![sid] = SetSubgoalStatus(subgoals[sid], status, today)]
         IN IF ~can_edit(g, user)
            THEN Reply("update_subgoal", 403)
                 /\ UNCHANGED <<goals, subgoals, shares, today, session>>
            ELSE /\ subgoals' = edited
                 /\ goals' =
                      IF status # Absent /\ status # subgoals[sid].status
                      THEN [goals EXCEPT ![g] =
                              DeriveGoal(goals[g],
                                         AchievedCount(edited, SubgoalsOf(g), sid, status),
                                         Cardinality(SubgoalsOf(g)), today)]
                      ELSE goals
                 /\ Reply("update_subgoal", 200)
                 /\ UNCHANGED <<shares, today, session>>

\* delete_subgoal that runs the goal-status derivation on the remaining
\* subgoals.
delete_subgoal_rederives(user, sid) ==
    IF sid \notin SubgoalIds
    THEN Reply("delete_subgoal", 404) /\ UNCHANGED <<goals, subgoals, shares, today, session>>
    ELSE IF ~can_edit(subgoals[sid].goal_id, user)
    THEN Reply("delete_subgoal", 403) /\ UNCHANGED <<goals, subgoals, shares, today, session>>
    ELSE LET g == subgoals[sid].goal_id
             remaining == SubgoalsOf(g) \ {sid}
         IN /\ subgoals' = [s \in SubgoalIds \ {sid} |-> subgoals[s]]
            /\ goals' = [goals EXCEPT ![g] =
                  DeriveGoal(goals[g],
                             Cardinality({s \in remaining : subgoals[s].status = "achieved"}),
                             Cardinality(remaining), today)]
            /\ Reply("delete_subgoal", 200)
            /\ UNCHANGED <<shares, today, session>>

\* delete_subgoal that answers the deletion of a missing subgoal with 200.
delete_subgoal_missing_ok(user, sid) ==
    IF sid \notin SubgoalIds
    THEN Reply("delete_subgoal", 200) /\ UNCHANGED <<goals, subgoals, shares, today, session>>
    ELSE IF ~can_edit(subgoals[sid].goal_id, user)
    THEN Reply("delete_subgoal", 403) /\ UNCHANGED <<goals, subgoals, shares, today, session>>
    ELSE /\ subgoals' = [s \in SubgoalIds \ {sid} |-> subgoals[s]]
         /\ Reply("delete_subgoal", 200)
         /\ UNCHANGED <<goals, shares, today, session>>

\* DELETE /api/subgoals/<id>
delete_subgoal(user, sid) ==
    IF sid \notin SubgoalIds
    THEN Reply("delete_subgoal", 404) /\ UNCHANGED <<goals, subgoals, shares, today, session>>
    ELSE IF ~can_edit(subgoals[sid].goal_id, user)
    THEN Reply("delete_subgoal", 403) /\ UNCHANGED <<goals, subgoals, shares, today, session>>
    ELSE /\ subgoals' = [s \in SubgoalIds \ {sid} |-> subgoals[s]]
         /\ Reply("delete_subgoal", 200)
         /\ UNCHANGED <<goals, shares, today, session>>

(***************************************************************************)
(* PUT /api/subgoals/<id> step by step, for requests served at the same    *)
(* time.  A request reads the committed tables; what it changes stays in   *)
(* its session until the commit.  The store is SQLite: a SELECT opens no   *)
(* transaction, and the first UPDATE that a flush sends takes the write    *)
(* lock of the database, which the commit or the rollback gives back.      *)
(***************************************************************************)
\* Request r holds the write lock: it has flushed a change of its subgoal.
HoldsLock(r) ==
    /\ session[r].pc = "flushed"
    /\ session[r].new_subgoal # session[r].subgoal

\* The row `current` of a table after an UPDATE that sets the columns in
\* which the session's row `new` differs from the row `loaded` it started
\* from.
WriteChanged(current, loaded, new) ==
    [f \in DOMAIN current |-> IF new[f] # loaded[f] THEN new[f] ELSE current[f]]

\* Subgoal.query.get, subgoal.goal and the permission check: the session
\* loads the subgoal row and the goal row.
begin_update_subgoal(r, user, sid, status) ==
    /\ session[r].pc = "idle"
    /\ IF sid \notin SubgoalIds
       THEN Reply("update_subgoal", 404) /\ UNCHANGED session
       ELSE IF ~can_edit(subgoals[sid].goal_id, user)
       THEN Reply("update_subgoal", 403) /\ UNCHANGED session
       ELSE /\ session' = [session EXCEPT ![r] =
                 [pc |-> "loaded", user |-> user, sid |-> sid,
                  status |-> status,
                  subgoal |-> subgoals[sid],
                  goal_id |-> subgoals[sid].goal_id,
                  goal |-> goals[subgoals[sid].goal_id],
                  new_subgoal |-> subgoals[sid],
                  new_goal |-> goals[subgoals[sid].goal_id],
                  seen |-> <<goals, subgoals>>]]
            /\ UNCHANGED last
    /\ UNCHANGED <<goals, subgoals, shares, today>>

\* The status part and the derivation: the session changes its subgoal row;
\* reading goal.subgoals flushes that change (taking the write lock) and
\* loads the goal's subgoal rows as they are committed now; the derivation
\* works on them and on the goal row the session loaded at the start.
derive_update_subgoal(r) ==
    /\ session[r].pc = "loaded"
    /\ LET q == session[r]
           new_subgoal == SetSubgoalStatus(q.subgoal, q.status, today)
           changed == q.status # Absent /\ q.status # q.subgoal.status
           rows == [subgoals EXCEPT ![q.sid] = new_subgoal]
           ids == SubgoalsOf(q.goal_id)
       IN /\ changed => \A o \in Requests \ {r} : ~HoldsLock(o)
          /\ session' = [session EXCEPT ![r] =
                [q EXCEPT
                   !.pc = "flushed",
                   !.new_subgoal = new_subgoal,
                   !.new_goal =
                      IF changed
                      THEN DeriveGoal(q.goal,
                                      AchievedCount(rows, ids, q.sid, q.status),
                                      Cardinality(ids), today)
                      ELSE q.goal]]
    /\ UNCHANGED <<goals, subgoals, shares, today, last>>

\* db.session.commit(): the changed columns of both rows are stored at once.
commit_update_subgoal(r) ==
    /\ session[r].pc = "flushed"
    /\ \A o \in Requests \ {r} : ~HoldsLock(o)
    /\ LET q == session[r]
       IN /\ subgoals' = [subgoals EXCEPT ![q.sid] =
                            WriteChanged(@, q.subgoal, q.new_subgoal)]
          /\ goals' = [goals EXCEPT ![q.goal_id] =
                         WriteChanged(@, q.goal, q.new_goal)]
    /\ session' = [session EXCEPT ![r].pc = "committed"]
    /\ Reply("update_subgoal", 200)
    /\ UNCHANGED <<shares, today>>

\* fail_update_subgoal whose rollback leaves the flushed subgoal row stored.
fail_update_subgoal_keeps_subgoal(r) ==
    /\ session[r].pc = "flushed"
    /\ subgoals' = [subgoals EXCEPT ![session[r].sid] =
                      WriteChanged(@, session[r].subgoal, session[r].new_subgoal)]
    /\ session' = [session EXCEPT ![r].pc = "failed"]
    /\ Reply("update_subgoal", 500)
    /\ UNCHANGED <<goals, shares, today>>

\* The commit raises: db.session.rollback(), and the answer is 500.
fail_update_subgoal(r) ==
    /\ session[r].pc = "flushed"
    /\ session' = [session EXCEPT ![r].pc = "failed"]
    /\ Reply("update_subgoal", 500)
    /\ UNCHANGED <<goals, subgoals, shares, today>>

\* The primary keys of the table progress_entries.
EntryIds == UNION {{e.id : e \in goals[g].progress_entries} : g \in GoalIds}

\* POST /api/goals/<id>/progress
add_progress(user, g, has_percentage) ==
    IF g \notin GoalIds \/ (g \in GoalIds /\ goals[g].user_id # user)
    THEN Reply("add_progress", 404) /\ UNCHANGED <<goals, subgoals, shares, today, session>>
    ELSE IF ~has_percentage
    THEN Reply("add_progress", 400) /\ UNCHANGED <<goals, subgoals, shares, today, session>>
    ELSE /\ goals' = [goals EXCEPT ![g].progress_entries =
                         @ \cup {[id |-> NewId(EntryIds), entry_date |-> today]}]
         /\ Reply("add_progress", 201)
         /\ UNCHANGED <<subgoals, shares, today, session>>

(***************************************************************************)
(* Sharing handlers.                                                       *)
(***************************************************************************)
\* The owner's tag named "Shared", if there is one.
SharedTagOf(user) == {t.id : t \in {x \in Tags : x.user_id = user /\ x.name = "Shared"}}

\* share_goal without the check that the target is not the actor.
share_goal_with_self(user, g, email, permission) ==
    IF g \notin GoalIds
    THEN Reply("share_goal", 404) /\ UNCHANGED <<goals, subgoals, shares, today, session>>
    ELSE IF ~is_owner(g, user)
    THEN Reply("share_goal", 403) /\ UNCHANGED <<goals, subgoals, shares, today, session>>
    ELSE IF email = Absent
    THEN Reply("share_goal", 400) /\ UNCHANGED <<goals, subgoals, shares, today, session>>
    ELSE LET user_to_share_with == UserByEmail(NormalizeEmail(email))
         IN IF user_to_share_with = NoUser
            THEN Reply("share_goal", 404)
                 /\ UNCHANGED <<goals, subgoals, shares, today, session>>
            ELSE IF \E e \in SharesOf(g) : e.shared_with_user_id = user_to_share_with
            THEN Reply("share_goal", 400)
                 /\ UNCHANGED <<goals, subgoals, shares, today, session>>
            ELSE LET goal_share ==
                        [id |-> NewId({e.id : e \in shares}), goal_id |-> g,
                         shared_by_user_id |-> user,
                         shared_with_user_id |-> user_to_share_with,
                         permission_level |->
                            IF permission \in {"edit", "view"}
                            THEN permission ELSE "edit"]
                 IN /\ shares' = shares \cup {goal_share}
                    /\ goals' = [goals EXCEPT
                                   ![g].tags = @ \cup SharedTagOf(user)]
                    /\ last' = [op |-> "share_goal", code |-> 201,
                                body |-> {goal_share}]
                    /\ UNCHANGED <<subgoals, today, session>>

\* share_goal without the check that the goal is already shared with the
\* target.
share_goal_again(user, g, email, permission) ==
    IF g \notin GoalIds
    THEN Reply("share_goal", 404) /\ UNCHANGED <<goals, subgoals, shares, today, session>>
    ELSE IF ~is_owner(g, user)
    THEN Reply("share_goal", 403) /\ UNCHANGED <<goals, subgoals, shares, today, session>>
    ELSE IF email = Absent
    THEN Reply("share_goal", 400) /\ UNCHANGED <<goals, subgoals, shares, today, session>>
    ELSE LET user_to_share_with == UserByEmail(NormalizeEmail(email))
         IN IF user_to_share_with = NoUser
            THEN Reply("share_goal", 404)
                 /\ UNCHANGED <<goals, subgoals, shares, today, session>>
            ELSE IF user_to_share_with = user
            THEN Reply("share_goal", 400)
                 /\ UNCHANGED <<goals, subgoals, shares, today, session>>
            ELSE LET goal_share ==
                        [id |-> NewId({e.id : e \in shares}), goal_id |-> g,
                         shared_by_user_id |-> user,
                         shared_with_user_id |-> user_to_share_with,
                         permission_level |->
                            IF permission \in {"edit", "view"}
                            THEN permission ELSE "edit"]
                 IN /\ shares' = shares \cup {goal_share}
                    /\ goals' = [goals EXCEPT
                                   ![g].tags = @ \cup SharedTagOf(user)]
                    /\ last' = [op |-> "share_goal", code |-> 201,
                                body |-> {goal_share}]
                    /\ UNCHANGED <<subgoals, today, session>>

\* POST /api/goals/<id>/share
share_goal(user, g, email, permission) ==
    IF g \notin GoalIds
    THEN Reply("share_goal", 404) /\ UNCHANGED <<goals, subgoals, shares, today, session>>
    ELSE IF ~is_owner(g, user)
    THEN Reply("share_goal", 403) /\ UNCHANGED <<goals, subgoals, shares, today, session>>
    ELSE IF email = Absent
    THEN Reply("share_goal", 400) /\ UNCHANGED <<goals, subgoals, shares, today, session>>
    ELSE LET user_to_share_with == UserByEmail(NormalizeEmail(email))
         IN IF user_to_share_with = NoUser
            THEN Reply("share_goal", 404)
                 /\ UNCHANGED <<goals, subgoals, shares, today, session>>
            ELSE IF user_to_share_with = user
            THEN Reply("share_goal", 400)
                 /\ UNCHANGED <<goals, subgoals, shares, today, session>>
            ELSE IF \E e \in SharesOf(g) : e.shared_with_user_id = user_to_share_with
            THEN Reply("share_goal", 400)
                 /\ UNCHANGED <<goals, subgoals, shares, today, session>>
            ELSE LET goal_share ==
                        [id |-> NewId({e.id : e \in shares}), goal_id |-> g,
                         shared_by_user_id |-> user,
                         shared_with_user_id |-> user_to_share_with,
                         permission_level |->
                            IF permission \in {"edit", "view"}
                            THEN permission ELSE "edit"]
                 IN /\ shares' = shares \cup {goal_share}
                    /\ goals' = [goals EXCEPT
                                   ![g].tags = @ \cup SharedTagOf(user)]
                    /\ last' = [op |-> "share_goal", code |-> 201,
                                body |-> {goal_share}]
                    /\ UNCHANGED <<subgoals, today, session>>

\* DELETE /api/goals/<id>/share/<user_id>
\* The count of remaining shares is a query, which the session flushes the
\* pending delete before: it no longer counts the share being removed.
unshare_goal(user, g, user_id) ==
    IF g \notin GoalIds
    THEN Reply("unshare_goal", 404) /\ UNCHANGED <<goals, subgoals, shares, today, session>>
    ELSE IF ~is_owner(g, user)
    THEN Reply("unshare_goal", 403) /\ UNCHANGED <<goals, subgoals, shares, today, session>>
    ELSE LET found == {e \in SharesOf(g) : e.shared_with_user_id = user_id}
         IN IF found = {}
            THEN Reply("unshare_goal", 404)
                 /\ UNCHANGED <<goals, subgoals, shares, today, session>>
            ELSE LET goal_share == CHOOSE e \in found : \A o \in found : e.id <= o.id
                     remaining_shares == Cardinality(SharesOf(g) \ {goal_share})
                 IN /\ shares' = shares \ {goal_share}
                    /\ goals' = IF remaining_shares = 1
                                THEN [goals EXCEPT ![g].tags = @ \ SharedTagOf(user)]
                                ELSE goals
                    /\ Reply("unshare_goal", 200)
                    /\ UNCHANGED <<subgoals, today, session>>

\* GET /api/goals/<id>/shares
get_goal_shares(user, g) ==
    /\ IF g \notin GoalIds THEN Reply("get_goal_shares", 404)
       ELSE IF ~is_owner(g, user) THEN Reply("get_goal_shares", 403)
       ELSE last' = [op |-> "get_goal_shares", code |-> 200,
                     body |-> SharesOf(g)]
    /\ UNCHANGED <<goals, subgoals, shares, today, session>>

\* update_goal_tags that takes the tags of the acting user, not the owner's.
update_goal_tags_of_actor(user, g, tag_ids) ==
    IF g \notin GoalIds
    THEN Reply("update_goal_tags", 404) /\ UNCHANGED <<goals, subgoals, shares, today, session>>
    ELSE IF ~can_edit(g, user)
    THEN Reply("update_goal_tags", 403) /\ UNCHANGED <<goals, subgoals, shares, today, session>>
    ELSE LET actor_tags == {t \in Tags : t.id \in tag_ids /\ t.user_id = user}
         IN IF tag_ids # {} /\ Cardinality(actor_tags) # Cardinality(tag_ids)
            THEN Reply("update_goal_tags", 400)
                 /\ UNCHANGED <<goals, subgoals, shares, today, session>>
            ELSE /\ goals' = [goals EXCEPT ![g].tags = {t.id : t \in actor_tags}]
                 /\ Reply("update_goal_tags", 200)
                 /\ UNCHANGED <<subgoals, shares, today, session>>

\* PUT /api/goals/<id>/tags
update_goal_tags(user, g, tag_ids) ==
    IF g \notin GoalIds
    THEN Reply("update_goal_tags", 404) /\ UNCHANGED <<goals, subgoals, shares, today, session>>
    ELSE IF ~can_edit(g, user)
    THEN Reply("update_goal_tags", 403) /\ UNCHANGED <<goals, subgoals, shares, today, session>>
    ELSE LET owner_tags == {t \in Tags : t.id \in tag_ids
                                         /\ t.user_id = goals[g].owner_id}
         IN IF tag_ids # {} /\ Cardinality(owner_tags) # Cardinality(tag_ids)
            THEN Reply("update_goal_tags", 400)
                 /\ UNCHANGED <<goals, subgoals, shares, today, session>>
            ELSE /\ goals' = [goals EXCEPT ![g].tags = {t.id : t \in owner_tags}]
                 /\ Reply("update_goal_tags", 200)
                 /\ UNCHANGED <<subgoals, shares, today, session>>

(***************************************************************************)
(* POST /api/goals/<id>/share step by step, for requests served at the     *)
(* same time.  The checks are SELECTs on the committed tables; the query   *)
(* for the "Shared" tag flushes the INSERT of the new goal_shares row,     *)
(* which takes the write lock of the database and is where the constraint  *)
(* _goal_share_unique is enforced; the commit or the rollback gives the    *)
(* lock back.                                                              *)
(***************************************************************************)
\* Request r holds the write lock: it has flushed its INSERT.
HoldsShareLock(r) == session[r].pc = "share_flushed"

\* The checks of share_goal up to the one for an existing share.
begin_share_goal(r, user, g, email, permission) ==
    /\ session[r].pc = "idle"
    /\ IF g \notin GoalIds
       THEN Reply("share_goal", 404) /\ UNCHANGED session
       ELSE IF ~is_owner(g, user)
       THEN Reply("share_goal", 403) /\ UNCHANGED session
       ELSE IF email = Absent
       THEN Reply("share_goal", 400) /\ UNCHANGED session
       ELSE LET user_to_share_with == UserByEmail(NormalizeEmail(email))
            IN IF user_to_share_with = NoUser
               THEN Reply("share_goal", 404) /\ UNCHANGED session
               ELSE IF user_to_share_with = user
               THEN Reply("share_goal", 400) /\ UNCHANGED session
               ELSE IF \E e \in SharesOf(g) : e.shared_with_user_id = user_to_share_with
               THEN Reply("share_goal", 400) /\ UNCHANGED session
               ELSE /\ session' = [session EXCEPT ![r] =
                         [pc |-> "share_checked", user |-> user, goal_id |-> g,
                          user_to_share_with |-> user_to_share_with,
                          permission_level |->
                             IF permission \in {"edit", "view"}
                             THEN permission ELSE "edit"]]
                    /\ UNCHANGED last
    /\ UNCHANGED <<goals, subgoals, shares, today>>

\* flush_share_goal on a table goal_shares without the unique constraint.
flush_share_goal_unconstrained(r) ==
    /\ session[r].pc = "share_checked"
    /\ \A o \in Requests \ {r} : ~HoldsShareLock(o)
    /\ session' = [session EXCEPT ![r].pc = "share_flushed"]
    /\ UNCHANGED <<goals, subgoals, shares, today, last>>

\* db.session.add and the autoflush before the tag query: the INSERT is
\* sent once no other request holds the write lock, and raises
\* IntegrityError when a row for the goal and the user is stored by then;
\* the handler then rolls back and answers 500.
flush_share_goal(r) ==
    /\ session[r].pc = "share_checked"
    /\ \A o \in Requests \ {r} : ~HoldsShareLock(o)
    /\ IF \E e \in shares : /\ e.goal_id = session[r].goal_id
                            /\ e.shared_with_user_id = session[r].user_to_share_with
       THEN /\ session' = [session EXCEPT ![r].pc = "failed"]
            /\ Reply("share_goal", 500)
       ELSE /\ session' = [session EXCEPT ![r].pc = "share_flushed"]
            /\ UNCHANGED last
    /\ UNCHANGED <<goals, subgoals, shares, today>>

\* db.session.commit(): the share and the "Shared" tag are stored at once.
commit_share_goal(r) ==
    /\ session[r].pc = "share_flushed"
    /\ LET q == session[r]
           goal_share == [id |-> NewId({e.id : e \in shares}),
                          goal_id |-> q.goal_id,
                          shared_by_user_id |-> q.user,
                          shared_with_user_id |-> q.user_to_share_with,
                          permission_level |-> q.permission_level]
       IN /\ shares' = shares \cup {goal_share}
          /\ goals' = [goals EXCEPT ![q.goal_id].tags = @ \cup SharedTagOf(q.user)]
          /\ last' = [op |-> "share_goal", code |-> 201, body |-> {goal_share}]
    /\ session' = [session EXCEPT ![r].pc = "committed"]
    /\ UNCHANGED <<subgoals, today>>

\* The except branch for the other errors: the wait for the write lock that
\* another request holds times out, or the commit raises;
\* db.session.rollback(), and the answer is 500.
fail_share_goal(r) ==
    /\ \/ session[r].pc = "share_flushed"
       \/ /\ session[r].pc = "share_checked"
          /\ \E o \in Requests \ {r} : HoldsShareLock(o)
    /\ session' = [session EXCEPT ![r].pc = "failed"]
    /\ Reply("share_goal", 500)
    /\ UNCHANGED <<goals, subgoals, shares, today>>

\* Goal.to_dict(current_user_id), as far as the state goes.
GoalView(g, user) ==
    [id |-> g, status |-> goals[g].status,
     achieved_date |-> goals[g].achieved_date,
     archived_date |-> goals[g].archived_date,
     progress |-> calculate_progress(g),
     is_shared |-> SharesOf(g) # {},
     is_owner |-> is_owner(g, user)]

\* GET /api/goals
get_goals(user, include_archived) ==
    LET owned == {g \in GoalIds : goals[g].owner_id = user}
        shared == {g \in GoalIds :
                      \E e \in shares : e.goal_id = g /\ e.shared_with_user_id = user}
        listed == IF include_archived
                  THEN {g \in owned \cup shared : goals[g].status = "archived"}
                  ELSE {g \in owned \cup shared : goals[g].status # "archived"}
    IN /\ last' = [op |-> "get_goals", code |-> 200,
                   body |-> {GoalView(g, user) : g \in listed}]
       /\ UNCHANGED <<goals, subgoals, shares, today, session>>

(***************************************************************************)
(* Specification Spec: the lifecycle of a goal and its subgoals under the  *)
(* requests of its owner, over MaxDay days.                                *)
(***************************************************************************)
Owner == "alice"
GoalRefs == 1..MaxGoals
SubgoalRefs == 1..MaxSubgoals

Next ==
    \/ Tick
    \/ \E t \in BOOLEAN : NewId(GoalIds) <= MaxGoals /\ create_goal(Owner, t)
    \/ \E g \in GoalRefs, s \in GoalStatusInputs \cup {Absent} :
          update_goal(Owner, g, s)
    \/ \E g \in GoalRefs : delete_goal(Owner, g)
    \/ \E g \in GoalRefs : archive_goal(Owner, g)
    \/ \E g \in GoalRefs : unarchive_goal(Owner, g)
    \/ \E g \in GoalRefs, t \in BOOLEAN :
          NewId(SubgoalIds) <= MaxSubgoals /\ create_subgoal(Owner, g, t)
    \/ \E s \in SubgoalRefs, st \in SubgoalStatusInputs \cup {Absent} :
          update_subgoal(Owner, s, st)
    \/ \E s \in SubgoalRefs : delete_subgoal(Owner, s)

Spec == Init /\ [][Next]_vars

(***************************************************************************)
(* Specification SpecSharing: one day of requests by every user, the       *)
(* sharing requests among them; goals are completed by explicit edit or by *)
(* their one subgoal.                                                      *)
(***************************************************************************)
NextSharing ==
    \/ \E u \in Users, t \in BOOLEAN :
          NewId(GoalIds) <= MaxGoals /\ create_goal(u, t)
    \/ \E u \in Users, g \in GoalRefs, s \in {"completed", Absent} :
          update_goal(u, g, s)
    \/ \E u \in Users, g \in GoalRefs : delete_goal(u, g)
    \/ \E u \in Users, g \in GoalRefs : archive_goal(u, g)
    \/ \E u \in Users, g \in GoalRefs : unarchive_goal(u, g)
    \/ \E u \in Users, g \in GoalRefs, t \in BOOLEAN :
          NewId(SubgoalIds) <= MaxSharedSubgoals /\ create_subgoal(u, g, t)
    \/ \E u \in Users, s \in 1..MaxSharedSubgoals, st \in {"achieved", Absent} :
          update_subgoal(u, s, st)
    \/ \E u \in Users, s \in 1..MaxSharedSubgoals : delete_subgoal(u, s)
    \/ \E u \in Users, g \in GoalRefs, e \in Emails \cup {Absent},
          p \in PermissionInputs :
          NewId({x.id : x \in shares}) <= MaxShares /\ share_goal(u, g, e, p)
    \/ \E u \in Users, g \in GoalRefs, t \in Users : unshare_goal(u, g, t)
    \/ \E u \in Users, g \in GoalRefs : get_goal_shares(u, g)
    \/ \E u \in Users, g \in GoalRefs, ts \in SUBSET TagIds :
          update_goal_tags(u, g, ts)

SpecSharing == Init /\ [][NextSharing]_vars

(***************************************************************************)
(* Specification SpecDeletion: every user creates goals, gives them        *)
(* subgoals, shares them and deletes them.                                 *)
(***************************************************************************)
DeletionRefs == 1..MaxDeletionGoals

NextDeletion ==
    \/ \E u \in Users : NewId(GoalIds) <= MaxDeletionGoals /\ create_goal(u, TRUE)
    \/ \E u \in Users, g \in DeletionRefs :
          NewId(SubgoalIds) <= MaxDeletionSubgoals /\ create_subgoal(u, g, TRUE)
    \/ \E u \in Users, g \in DeletionRefs, e \in Users, p \in {"edit", "view"} :
          NewId({x.id : x \in shares}) <= MaxShares /\ share_goal(u, g, e, p)
    \/ \E u \in Users, g \in DeletionRefs : delete_goal(u, g)

SpecDeletion == Init /\ [][NextDeletion]_vars

(***************************************************************************)
(* Specification SpecListing: users create goals, complete, archive and    *)
(* share them, and read their goal lists.                                  *)
(***************************************************************************)
ListedRefs == 1..MaxListedGoals

NextListing ==
    \/ \E u \in Users : NewId(GoalIds) <= MaxListedGoals /\ create_goal(u, TRUE)
    \/ \E u \in Users, g \in ListedRefs : update_goal(u, g, "completed")
    \/ \E u \in Users, g \in ListedRefs : archive_goal(u, g)
    \/ \E u \in Users, g \in ListedRefs, e \in Users, p \in {"edit", "view"} :
          NewId({x.id : x \in shares}) <= MaxShares /\ share_goal(u, g, e, p)
    \/ \E u \in Users, a \in BOOLEAN : get_goals(u, a)

SpecListing == Init /\ [][NextListing]_vars

(***************************************************************************)
(* Specification SpecEntries: users create goals, share them and add       *)
(* progress entries to them.                                               *)
(***************************************************************************)
NextEntries ==
    \/ Tick
    \/ \E u \in Users : NewId(GoalIds) <= MaxGoals /\ create_goal(u, TRUE)
    \/ \E u \in Users, g \in GoalRefs, e \in Users, p \in {"edit", "view"} :
          NewId({x.id : x \in shares}) <= MaxShares /\ share_goal(u, g, e, p)
    \/ \E u \in Users, g \in GoalRefs, p \in BOOLEAN :
          NewId(EntryIds) <= MaxEntries /\ add_progress(u, g, p)

SpecEntries == Init /\ [][NextEntries]_vars

(***************************************************************************)
(* Specification SpecConcurrent: the owner builds a goal with subgoals and *)
(* marks them, one request at a time; then up to two update_subgoal        *)
(* requests are served at the same time, their steps interleaved.          *)
(***************************************************************************)
NoneInFlight == \A r \in Requests : session[r].pc = "idle"

NextConcurrent ==
    \/ NoneInFlight /\ NewId(GoalIds) <= MaxGoals /\ create_goal(Owner, TRUE)
    \/ \E g \in GoalRefs :
          /\ NoneInFlight
          /\ NewId(SubgoalIds) <= MaxSubgoals
          /\ create_subgoal(Owner, g, TRUE)
    \/ \E s \in SubgoalRefs, st \in SubgoalStatuses :
          NoneInFlight /\ update_subgoal(Owner, s, st)
    \/ \E r \in Requests, s \in SubgoalRefs, st \in SubgoalStatuses :
          begin_update_subgoal(r, Owner, s, st)
    \/ \E r \in Requests : derive_update_subgoal(r)
    \/ \E r \in Requests : commit_update_subgoal(r)
    \/ \E r \in Requests : fail_update_subgoal(r)

SpecConcurrent == Init /\ [][NextConcurrent]_vars

(***************************************************************************)
(* Specification SpecProgress: calculate_progress on a goal of any status  *)
(* with up to MaxTotal subgoals, any number of them achieved, as the goal  *)
(* list reports it.                                                        *)
(***************************************************************************)
InitProgress ==
    \E st \in GoalStatusInputs, t \in 0..MaxTotal :
      \E a \in 0..t :
        /\ today = 1
        /\ goals = <<[user_id |-> Owner, owner_id |-> Owner, status |-> st,
                      achieved_date |-> IF st = "completed" THEN today ELSE NoDate,
                      archived_date |-> NoDate, tags |-> {},
                      progress_entries |-> {}]>>
        /\ subgoals = [s \in 1..t |->
                          IF s <= a
                          THEN [goal_id |-> 1, status |-> "achieved",
                                achieved_date |-> today]
                          ELSE [goal_id |-> 1, status |-> "pending",
                                achieved_date |-> NoDate]]
        /\ shares = {}
        /\ last = [op |-> "none", code |-> 0]
        /\ session = [r \in Requests |-> Idle]

NextProgress == \E u \in Users, a \in BOOLEAN : get_goals(u, a)

SpecProgress == InitProgress /\ [][NextProgress]_vars

(***************************************************************************)
(* Specification SpecChecklist: a goal is created, given up to             *)
(* MaxChecklist subgoals, and then its subgoals are marked achieved one at *)
(* a time, with no other request in between.                               *)
(***************************************************************************)
NextChecklist ==
    \/ Tick
    \/ GoalIds = {} /\ create_goal(Owner, TRUE)
    \/ \E g \in GoalIds :
          /\ \A s \in SubgoalsOf(g) : subgoals[s].status = "pending"
          /\ NewId(SubgoalIds) <= MaxChecklist
          /\ create_subgoal(Owner, g, TRUE)
    \/ \E s \in SubgoalIds :
          subgoals[s].status = "pending" /\ update_subgoal(Owner, s, "achieved")

SpecChecklist == Init /\ [][NextChecklist]_vars

(***************************************************************************)
(* Specification SpecNotFound: two users send every goal and subgoal       *)
(* request with ids of rows that exist, that were deleted and that never   *)
(* existed.                                                                *)
(***************************************************************************)
AnyGoalRefs == 1..(MaxGoals + 1)
AnySubgoalRefs == 1..(MaxSharedSubgoals + 1)
Requesters == {Owner, "bob"}

NextNotFound ==
    \/ \E u \in Requesters : NewId(GoalIds) <= MaxGoals /\ create_goal(u, TRUE)
    \/ \E u \in Requesters, g \in AnyGoalRefs, s \in {"completed", Absent} :
          update_goal(u, g, s)
    \/ \E u \in Requesters, g \in AnyGoalRefs : delete_goal(u, g)
    \/ \E u \in Requesters, g \in AnyGoalRefs : archive_goal(u, g)
    \/ \E u \in Requesters, g \in AnyGoalRefs : unarchive_goal(u, g)
    \/ \E u \in Requesters, g \in AnyGoalRefs, t \in BOOLEAN :
          NewId(SubgoalIds) <= MaxSharedSubgoals /\ create_subgoal(u, g, t)
    \/ \E u \in Requesters, s \in AnySubgoalRefs, st \in {"achieved", Absent} :
          update_subgoal(u, s, st)
    \/ \E u \in Requesters, s \in AnySubgoalRefs : delete_subgoal(u, s)
    \/ \E u \in Requesters, g \in AnyGoalRefs, p \in BOOLEAN :
          NewId(EntryIds) <= MaxEntries /\ add_progress(u, g, p)
    \/ \E u \in Requesters, g \in AnyGoalRefs, e \in Requesters \cup {Absent},
          p \in {"edit", "view"} :
          NewId({x.id : x \in shares}) <= MaxShares /\ share_goal(u, g, e, p)

SpecNotFound == Init /\ [][NextNotFound]_vars

(***************************************************************************)
(* Specification SpecSubgoalsOnly: the owner creates a goal and creates,   *)
(* marks and deletes its subgoals; no request edits the goal's status,     *)
(* archives the goal or restores it.                                       *)
(***************************************************************************)
NextSubgoalsOnly ==
    \/ Tick
    \/ NewId(GoalIds) <= MaxGoals /\ create_goal(Owner, TRUE)
    \/ \E g \in GoalRefs :
          NewId(SubgoalIds) <= MaxSubgoals /\ create_subgoal(Owner, g, TRUE)
    \/ \E s \in SubgoalRefs, st \in SubgoalStatuses : update_subgoal(Owner, s, st)
    \/ \E s \in SubgoalRefs : delete_subgoal(Owner, s)

SpecSubgoalsOnly == Init /\ [][NextSubgoalsOnly]_vars

(***************************************************************************)
(* Specification SpecConcurrentSharing: the owner creates a goal and       *)
(* shares and unshares it, one request at a time; then up to two           *)
(* share_goal requests are served at the same time, their steps            *)
(* interleaved.                                                            *)
(***************************************************************************)
NextConcurrentSharing ==
    \/ NoneInFlight /\ NewId(GoalIds) <= MaxGoals /\ create_goal(Owner, TRUE)
    \/ \E g \in GoalRefs, e \in Users, p \in {"edit", "view"} :
          /\ NoneInFlight
          /\ NewId({x.id : x \in shares}) <= MaxShares
          /\ share_goal(Owner, g, e, p)
    \/ \E g \in GoalRefs, t \in Users : NoneInFlight /\ unshare_goal(Owner, g, t)
    \/ \E r \in Requests, g \in GoalRefs, e \in Users, p \in {"edit", "view"} :
          begin_share_goal(r, Owner, g, e, p)
    \/ \E r \in Requests : flush_share_goal(r)
    \/ \E r \in Requests : commit_share_goal(r)
    \/ \E r \in Requests : fail_share_goal(r)

SpecConcurrentSharing == Init /\ [][NextConcurrentSharing]_vars

(***************************************************************************)
(* Specification SpecDerivation: the derivation of update_subgoal on a     *)
(* goal of any status with 1 to MaxDerivationTotal subgoals, any number of *)
(* them achieved.  The requests change the status of the goal's last       *)
(* subgoal between values that are not "achieved", so that the derivation  *)
(* runs again on the same counts.                                          *)
(***************************************************************************)
InitDerivation ==
    \E st \in GoalStatuses, t \in 1..MaxDerivationTotal :
      \E a \in 0..t :
        /\ today = 1
        /\ goals = <<[user_id |-> Owner, owner_id |-> Owner, status |-> st,
                      achieved_date |-> IF st \in {"completed", "archived"}
                                        THEN today ELSE NoDate,
                      archived_date |-> IF st = "archived" THEN today ELSE NoDate,
                      tags |-> {}, progress_entries |-> {}]>>
        /\ subgoals = [s \in 1..t |->
                          IF s <= a
                          THEN [goal_id |-> 1, status |-> "achieved",
                                achieved_date |-> today]
                          ELSE [goal_id |-> 1, status |-> "pending",
                                achieved_date |-> NoDate]]
        /\ shares = {}
        /\ last = [op |-> "none", code |-> 0]
        /\ session = [r \in Requests |-> Idle]

NextDerivation ==
    \E st \in {"pending", "skipped"} :
        update_subgoal(Owner, Max(SubgoalIds), st)

SpecDerivation == InitDerivation /\ [][NextDerivation]_vars

(***************************************************************************)
(* What the claims speak of.                                               *)
(***************************************************************************)
\* The subgoals of goal g that are achieved, in the current state.
Achieved(g) == {s \in SubgoalsOf(g) : subgoals[s].status = "achieved"}

\* floor(100 * a / t).
FloorPercent(a, t) == (100 * a) \div t

\* The priority-ordered derivation as the specification states it: the
\* status and achieved_date of a goal after a subgoal change, from its status
\* and achieved_date before and the counts after.
StatedDerivation(status, achieved_date, a, t, day) ==
    LET progress == FloorPercent(a, t)
    IN IF progress = 100 /\ status # "completed" THEN <<"completed", day>>
       ELSE IF a = 1 /\ status = "created" THEN <<"started", achieved_date>>
       ELSE IF a >= 2 /\ status \in {"created", "started"}
       THEN <<"working", achieved_date>>
       ELSE IF progress = 0 THEN <<"created", NoDate>>
       ELSE <<status, achieved_date>>

\* The step is a served update_subgoal request that changed the status of
\* subgoal s.
SubgoalStatusChanged(s) ==
    /\ last'.op = "update_subgoal" /\ last'.code = 200
    /\ s \in SubgoalIds /\ s \in DOMAIN subgoals'
    /\ subgoals'[s].status # subgoals[s].status

\* C1: whenever update_subgoal changes a subgoal's status, the parent goal's
\* status and achieved_date afterwards are the stated priority-ordered
\* derivation applied to the goal's status before the call and to the counts
\* after the edit.
C1_DerivationOnSubgoalChange ==
    [][\A s \in SubgoalRefs :
         SubgoalStatusChanged(s) =>
            LET g == subgoals[s].goal_id
                ids == {x \in DOMAIN subgoals' : subgoals'[x].goal_id = g}
                a == Cardinality({x \in ids : subgoals'[x].status = "achieved"})
                t == Cardinality(ids)
            IN <<goals'[g].status, goals'[g].achieved_date>> =
                  StatedDerivation(goals[g].status, goals[g].achieved_date,
                                   a, t, today)]_vars

\* C1 witness: a subgoal change has just moved a goal with three subgoals,
\* two of them achieved, to working.
C1_Witness ==
    /\ last.op = "update_subgoal" /\ last.code = 200
    /\ \E g \in GoalIds :
          /\ goals[g].status = "working"
          /\ Cardinality(SubgoalsOf(g)) = 3
          /\ Cardinality(Achieved(g)) = 2

\* C2: every goal whose status is completed has achieved_date set.
C2_CompletedHasAchievedDate ==
    \A g \in GoalIds :
        goals[g].status = "completed" => goals[g].achieved_date # NoDate

\* C9: every goal whose status is archived has archived_date set.
C9_ArchivedHasArchivedDate ==
    \A g \in GoalIds :
        goals[g].status = "archived" => goals[g].archived_date # NoDate

\* C10: a goal's status becomes archived only from completed, and an
\* archived goal changes status only to completed.
C10_ArchivedOnlyFromAndToCompleted ==
    [][\A g \in GoalRefs :
         (g \in GoalIds /\ g \in DOMAIN goals') =>
            /\ (goals'[g].status = "archived" /\ goals[g].status # "archived"
                  => goals[g].status = "completed")
            /\ (goals[g].status = "archived" /\ goals'[g].status # "archived"
                  => goals'[g].status = "completed")]_vars

C8_ArchiveUnarchiveGuards ==
    [][\A u \in Users, g \in GoalRefs :
         (g \in GoalIds /\ can_edit(g, u)) =>
            /\ archive_goal(u, g) =>
                  IF goals[g].status = "completed"
                  THEN /\ last'.code = 200
                       /\ goals'[g].status = "archived"
                       /\ goals'[g].archived_date = today
                  ELSE /\ last'.code = 400
                       /\ goals'[g] = goals[g]
            /\ unarchive_goal(u, g) =>
                  IF goals[g].status = "archived"
                  THEN /\ last'.code = 200
                       /\ goals'[g].status = "completed"
                       /\ goals'[g].archived_date = NoDate
                  ELSE /\ last'.code = 400
                       /\ goals'[g] = goals[g]]_vars

\* C8 witness: archiving a goal that is working has just been refused.
C8_Witness ==
    /\ last.op = "archive_goal" /\ last.code = 400
    /\ \E g \in GoalIds : goals[g].status = "working"

\* User u owns goal g or holds an edit share on it, read from the tables.
HoldsEditRight(g, u) ==
    \/ goals[g].owner_id = u
    \/ \E e \in shares : /\ e.goal_id = g
                         /\ e.shared_with_user_id = u
                         /\ e.permission_level = "edit"

\* The step serves an edit-gated request of user u on goal g.
EditGatedRequest(u, g) ==
    \/ \E s \in GoalStatusInputs \cup {Absent} : update_goal(u, g, s)
    \/ archive_goal(u, g)
    \/ unarchive_goal(u, g)
    \/ \E t \in BOOLEAN : create_subgoal(u, g, t)
    \/ \E s \in SubgoalsOf(g), st \in SubgoalStatusInputs \cup {Absent} :
          update_subgoal(u, s, st)
    \/ \E s \in SubgoalsOf(g) : delete_subgoal(u, s)
    \/ \E ts \in SUBSET TagIds : update_goal_tags(u, g, ts)

\* C3: every edit-gated request on a goal by a user who neither owns it nor
\* holds an edit share on it is answered 403 and changes no goal, subgoal,
\* tag or share.
C3_EditGatedRejected ==
    [][\A u \in Users, g \in GoalRefs :
         (g \in GoalIds /\ ~HoldsEditRight(g, u) /\ EditGatedRequest(u, g)) =>
            /\ last'.code = 403
            /\ UNCHANGED <<goals, subgoals, shares>>]_vars

\* C3 witness: an update_subgoal request has just been refused while every
\* user who is not the goal's owner holds a view share on it.
C3_Witness ==
    /\ last.op = "update_subgoal" /\ last.code = 403
    /\ \E e \in shares : e.permission_level = "view"
    /\ \A u \in Users, g \in GoalIds :
          goals[g].owner_id # u =>
             \E e \in shares : /\ e.goal_id = g
                               /\ e.shared_with_user_id = u
                               /\ e.permission_level = "view"

\* C4: at most one GoalShare per (goal_id, shared_with_user_id); no
\* GoalShare is for the goal's owner; every GoalShare is by the goal's owner.
C4_SharesWellFormed ==
    /\ \A e \in shares :
          e.goal_id \in GoalIds =>
             /\ e.shared_with_user_id # goals[e.goal_id].owner_id
             /\ e.shared_by_user_id = goals[e.goal_id].owner_id
    /\ \A e1, e2 \in shares :
          (/\ e1.goal_id = e2.goal_id
           /\ e1.shared_with_user_id = e2.shared_with_user_id) => e1 = e2

\* C4 witness: a goal has just been shared.
C4_Witness ==
    /\ last.op = "share_goal" /\ last.code = 201
    /\ shares # {}

\* C5: calculate_progress is 100 for a completed goal, else
\* floor(100 * achieved_count / total_count) when the goal has subgoals,
\* else 0; so it lies in 0..100.
C5_ProgressValue ==
    \A g \in GoalIds :
        /\ calculate_progress(g) =
              IF goals[g].status = "completed" THEN 100
              ELSE IF SubgoalsOf(g) # {}
              THEN FloorPercent(Cardinality(Achieved(g)),
                                Cardinality(SubgoalsOf(g)))
              ELSE 0
        /\ calculate_progress(g) \in 0..100

C11_SubgoalDates ==
    /\ [](\A s \in SubgoalIds :
             /\ subgoals[s].status = "achieved" =>
                   subgoals[s].achieved_date # NoDate
             /\ subgoals[s].status = "pending" =>
                   subgoals[s].achieved_date = NoDate)
    /\ [][\A s \in SubgoalRefs :
            SubgoalStatusChanged(s) =>
               /\ (/\ subgoals[s].status = "pending"
                   /\ subgoals'[s].status = "achieved") =>
                     subgoals'[s].achieved_date =
                        IF subgoals[s].achieved_date = NoDate THEN today
                        ELSE subgoals[s].achieved_date
               /\ (/\ subgoals[s].status = "achieved"
                   /\ subgoals'[s].status = "pending") =>
                     subgoals'[s].achieved_date = NoDate]_vars

\* C11 witness: on the second day one subgoal, achieved on the first day, is
\* still achieved, and another has been set back to pending or never left it.
C11_Witness ==
    /\ last.op = "update_subgoal" /\ last.code = 200
    /\ \E s, p \in SubgoalIds :
          /\ subgoals[s].status = "achieved"
          /\ subgoals[s].achieved_date = today
          /\ today > 1
          /\ subgoals[p].status = "pending"
          /\ subgoals[p].achieved_date = NoDate

\* The step serves an owner-only request of user u on goal g.
OwnerOnlyRequest(u, g) ==
    \/ \E e \in Emails \cup {Absent}, p \in PermissionInputs :
          share_goal(u, g, e, p)
    \/ \E t \in Users : unshare_goal(u, g, t)
    \/ get_goal_shares(u, g)

\* C12: share_goal, unshare_goal and get_goal_shares called on a goal by a
\* user who is not its owner, the holder of an edit share included, are
\* answered 403, return no share, and leave the GoalShare records unchanged.
C12_OwnerOnlyRejected ==
    [][\A u \in Users, g \in GoalRefs :
         (g \in GoalIds /\ goals[g].owner_id # u /\ OwnerOnlyRequest(u, g)) =>
            /\ last'.code = 403
            /\ "body" \notin DOMAIN last'
            /\ shares' = shares]_vars

\* C12 witness: the share list has just been refused while every user who is
\* not the goal's owner holds an edit share on it.
C12_Witness ==
    /\ last.op = "get_goal_shares" /\ last.code = 403
    /\ GoalIds # {}
    /\ \A u \in Users, g \in GoalIds :
          goals[g].owner_id # u =>
             \E e \in shares : /\ e.goal_id = g
                               /\ e.shared_with_user_id = u
                               /\ e.permission_level = "edit"

\* The GoalShare records of goal g for user t, in the state after the step.
SharesAfter(g, t) ==
    {e \in shares' : e.goal_id = g /\ e.shared_with_user_id = t}

\* C13: share_goal by the goal's owner fails and leaves the GoalShare records
\* unchanged when the e-mail belongs to no user (404), when the target is the
\* owner themself (400), and when the goal is already shared with the target
\* (400); after such a repeated share exactly one GoalShare for the pair
\* exists.
C13_ShareGoalFailures ==
    [][\A u \in Users, g \in GoalRefs, e \in Emails, p \in PermissionInputs :
         (g \in GoalIds /\ goals[g].owner_id = u /\ share_goal(u, g, e, p)) =>
            LET target == UserByEmail(NormalizeEmail(e))
            IN /\ target = NoUser => (last'.code = 404 /\ shares' = shares)
               /\ target = u => (last'.code = 400 /\ shares' = shares)
               /\ (\E x \in shares : /\ x.goal_id = g
                                     /\ x.shared_with_user_id = target) =>
                     /\ last'.code = 400
                     /\ shares' = shares
                     /\ Cardinality(SharesAfter(g, target)) = 1]_vars

\* C13 witness: the owner has just been refused a share of a goal that is
\* shared with the other user.
C13_Witness ==
    /\ last.op = "share_goal" /\ last.code = 400
    /\ \E g \in GoalIds, e \in shares :
          e.goal_id = g /\ e.shared_by_user_id = goals[g].owner_id

\* C14: delete_goal by the goal's owner removes the goal, all of its subgoals
\* and all of its GoalShare records, and leaves every other goal, subgoal
\* and share as it was; in every state every subgoal and every GoalShare
\* refers to a goal that exists.
C14_OwnerDeleteCascades ==
    /\ [][\A u \in Users, g \in DeletionRefs :
            (g \in GoalIds /\ goals[g].owner_id = u /\ delete_goal(u, g)) =>
               /\ DOMAIN goals' = GoalIds \ {g}
               /\ \A x \in GoalIds \ {g} : goals'[x] = goals[x]
               /\ DOMAIN subgoals' = {s \in SubgoalIds : subgoals[s].goal_id # g}
               /\ \A s \in DOMAIN subgoals' : subgoals'[s] = subgoals[s]
               /\ shares' = {e \in shares : e.goal_id # g}]_vars
    /\ [](/\ \A s \in SubgoalIds : subgoals[s].goal_id \in GoalIds
          /\ \A e \in shares : e.goal_id \in GoalIds)

\* C14 witness: an owner has just deleted the first goal, and the second goal
\* is still there with a subgoal and a share of its own.
C14_Witness ==
    /\ last.op = "delete_goal" /\ last.code = 200
    /\ last.message = "Goal deleted successfully"
    /\ GoalIds = {2}
    /\ SubgoalsOf(2) # {}
    /\ SharesOf(2) # {}

\* C15: delete_goal by a user who is not the owner removes exactly that
\* user's own GoalShare on the goal when there is one, of either permission
\* level, leaving every goal, every subgoal and every other share as it was;
\* when the user holds no share it answers 403 and changes nothing.
C15_NonOwnerDeleteRemovesOwnShare ==
    [][\A u \in Users, g \in DeletionRefs :
         (g \in GoalIds /\ goals[g].owner_id # u /\ delete_goal(u, g)) =>
            LET mine == {e \in shares : /\ e.goal_id = g
                                        /\ e.shared_with_user_id = u}
            IN IF mine # {}
               THEN /\ last'.code = 200
                    /\ shares' = shares \ mine
                    /\ goals' = goals
                    /\ subgoals' = subgoals
               ELSE /\ last'.code = 403
                    /\ UNCHANGED <<goals, subgoals, shares>>]_vars

\* C15 witness: a user has just removed their own share of a goal that is
\* still shared with another user.
C15_Witness ==
    /\ last.op = "delete_goal" /\ last.code = 200
    /\ last.message = "Goal removed from your shared goals"
    /\ \E g \in GoalIds : SharesOf(g) # {} /\ SubgoalsOf(g) # {}

\* The goals user u owns or holds a share on.
AccessibleGoals(u) ==
    {g \in GoalIds :
        \/ goals[g].owner_id = u
        \/ \E e \in shares : e.goal_id = g /\ e.shared_with_user_id = u}

\* C16: the goal list of a user holds only goals the user owns or holds a
\* share on, each id once; with include_archived it is all of them, the
\* archived ones included, and without it all of them but the archived ones.
C16_ListAccessibleGoals ==
    [][\A u \in Users, include_archived \in BOOLEAN :
         get_goals(u, include_archived) =>
            LET ids == {v.id : v \in last'.body}
            IN /\ ids \subseteq AccessibleGoals(u)
               /\ Cardinality(last'.body) = Cardinality(ids)
               /\ ids = IF include_archived THEN AccessibleGoals(u)
                        ELSE {g \in AccessibleGoals(u) :
                                 goals[g].status # "archived"}]_vars

\* C17: adding a progress entry to an existing goal succeeds for the owner
\* and for the holder of an edit share; for every other user it is answered
\* 403 and no progress entry is created.
C17_AddProgressByCanEdit ==
    [][\A u \in Users, g \in GoalRefs :
         (g \in GoalIds /\ add_progress(u, g, TRUE)) =>
            IF HoldsEditRight(g, u)
            THEN /\ last'.code = 201
                 /\ Cardinality(goals'[g].progress_entries) =
                       Cardinality(goals[g].progress_entries) + 1
            ELSE /\ last'.code = 403
                 /\ goals' = goals]_vars

\* C20: archive_goal on a completed goal followed at once by unarchive_goal
\* gives status completed, archived_date cleared and achieved_date as it was
\* before archiving: archiving keeps achieved_date, and the unarchive_goal
\* that follows it restores completed, clears archived_date and keeps
\* achieved_date again.
C20_ArchiveRoundTrip ==
    [][\A u \in Users, g \in GoalRefs :
         /\ (/\ g \in GoalIds
             /\ goals[g].status = "completed"
             /\ can_edit(g, u)
             /\ archive_goal(u, g)) =>
               /\ goals'[g].status = "archived"
               /\ goals'[g].achieved_date = goals[g].achieved_date
         /\ (/\ g \in GoalIds
             /\ last.op = "archive_goal" /\ last.code = 200
             /\ goals[g].status = "archived"
             /\ can_edit(g, u)
             /\ unarchive_goal(u, g)) =>
               /\ last'.code = 200
               /\ goals'[g].status = "completed"
               /\ goals'[g].archived_date = NoDate
               /\ goals'[g].achieved_date = goals[g].achieved_date]_vars

\* C20 witness: a goal completed on the first day has just been unarchived
\* on the second.
C20_Witness ==
    /\ last.op = "unarchive_goal" /\ last.code = 200
    /\ today > 1
    /\ \E g \in GoalIds :
          /\ goals[g].status = "completed"
          /\ goals[g].archived_date = NoDate
          /\ goals[g].achieved_date # NoDate
          /\ goals[g].achieved_date < today

\* The step stores request r's subgoal change in the table subgoals.
StoresSubgoalChange(r) ==
    /\ session[r].pc = "flushed"
    /\ session[r].new_subgoal # session[r].subgoal
    /\ subgoals'[session[r].sid] # subgoals[session[r].sid]

\* The step stores the goal status and achieved_date that request r derived.
StoresDerivation(r) ==
    LET q == session[r]
        g == goals'[q.goal_id]
    IN /\ q.new_goal.status # q.goal.status => g.status = q.new_goal.status
       /\ q.new_goal.achieved_date # q.goal.achieved_date =>
             g.achieved_date = q.new_goal.achieved_date

\* C18: the subgoal change and the goal derivation of an update_subgoal
\* request are stored as one unit.  When its commit fails (500) the tables
\* goals and subgoals stay as they were; while requests are in flight the
\* tables change only in the commit of one of them, and a step that stores a
\* request's subgoal change stores the goal status and achieved_date it
\* derived, and the other way round.
C18_SubgoalAndDerivationAtomic ==
    [][\A r \in Requests :
         /\ fail_update_subgoal(r) =>
               /\ last'.code = 500
               /\ goals' = goals
               /\ subgoals' = subgoals
         /\ (/\ session[r].pc = "flushed"
             /\ \A o \in Requests \ {r} : session'[o] = session[o]
             /\ (goals' # goals \/ subgoals' # subgoals)) =>
               /\ session'[r].pc = "committed"
               /\ session[r].new_subgoal # session[r].subgoal =>
                     subgoals'[session[r].sid].status =
                        session[r].new_subgoal.status
               /\ StoresSubgoalChange(r) => StoresDerivation(r)
               /\ goals' # goals => StoresSubgoalChange(r)]_vars

\* C18 witness: the commit of a request has just failed, and neither the
\* achieved status it set on its subgoal nor the goal status it derived is
\* in the tables.
C18_Witness ==
    /\ last.op = "update_subgoal" /\ last.code = 500
    /\ \E r \in Requests :
          /\ session[r].pc = "failed"
          /\ session[r].new_subgoal.status = "achieved"
          /\ subgoals[session[r].sid].status = "pending"
          /\ session[r].new_goal.status = "completed"
          /\ goals[session[r].goal_id].status # "completed"

\* The tables <<goals, subgoals>> after update_subgoal(sid, status) is served
\* alone on the tables db.
ServedAlone(db, sid, status, day) ==
    LET g == db[2][sid].goal_id
        ids == {s \in DOMAIN db[2] : db[2][s].goal_id = g}
        rows == [db[2] EXCEPT ![sid] = SetSubgoalStatus(@, status, day)]
    IN <<IF status # db[2][sid].status
         THEN [db[1] EXCEPT ![g] =
                 DeriveGoal(@, AchievedCount(rows, ids, sid, status),
                            Cardinality(ids), day)]
         ELSE db[1],
         rows>>

\* The status and achieved_date of goal g in the tables db.
GoalOutcome(db, g) == <<db[1][g].status, db[1][g].achieved_date>>

\* C19: once two update_subgoal requests that were served at the same time,
\* changing the status of two different subgoals of one goal, have both
\* committed, the goal's status and achieved_date are what one of the two
\* serial orders of the requests gives.
C19_ConcurrentAsSerial ==
    \A a, b \in Requests :
        (/\ a # b
         /\ session[a].pc = "committed" /\ session[b].pc = "committed"
         /\ session[a].seen = session[b].seen
         /\ session[a].sid # session[b].sid
         /\ session[a].goal_id = session[b].goal_id
         /\ session[a].status # session[a].subgoal.status
         /\ session[b].status # session[b].subgoal.status) =>
           LET p == session[a]
               q == session[b]
               ab == ServedAlone(ServedAlone(p.seen, p.sid, p.status, today),
                                 q.sid, q.status, today)
               ba == ServedAlone(ServedAlone(p.seen, q.sid, q.status, today),
                                 p.sid, p.status, today)
           IN GoalOutcome(<<goals, subgoals>>, p.goal_id) \in
                 {GoalOutcome(ab, p.goal_id), GoalOutcome(ba, p.goal_id)}

\* C21: the derivation is idempotent on fixed counts: for every goal, with
\* its current status and the counts of its subgoals (at least one), the
\* derivation applied to its own result gives the status it gave the first
\* time.
C21_DerivationIdempotent ==
    \A g \in GoalIds :
        LET a == Cardinality(Achieved(g))
            t == Cardinality(SubgoalsOf(g))
            once == DeriveGoal(goals[g], a, t, today)
            twice == DeriveGoal(once, a, t, today)
        IN t >= 1 => twice.status = once.status

\* The GoalShare records that give goal g to user u.
HeldShares(g, u) ==
    {e \in shares : e.goal_id = g /\ e.shared_with_user_id = u}

\* C22: for every goal and every user, can_edit implies can_access;
\* can_access holds exactly for the goal's owner and the users who hold a
\* share of any level on it, can_edit exactly for the owner and the users
\* who hold a share of level edit.
C22_EditImpliesAccess ==
    \A g \in GoalIds, u \in Users \cup {NoUser} :
       /\ can_edit(g, u) => can_access(g, u)
       /\ can_access(g, u) <=>
             /\ u \in Users
             /\ goals[g].owner_id = u \/ HeldShares(g, u) # {}
       /\ can_edit(g, u) <=>
             /\ u \in Users
             /\ \/ goals[g].owner_id = u
                \/ \E e \in HeldShares(g, u) : e.permission_level = "edit"

\* C22 witness: a goal with a holder of a view share, who can access and
\* cannot edit, and a holder of an edit share, who can do both.
C22_Witness ==
    \E g \in GoalIds, u \in Users, v \in Users :
       /\ HeldShares(g, u) # {}
       /\ \A e \in HeldShares(g, u) : e.permission_level = "view"
       /\ can_access(g, u) /\ ~can_edit(g, u)
       /\ \E e \in HeldShares(g, v) : e.permission_level = "edit"
       /\ can_edit(g, v) /\ ~is_owner(g, v)

\* The ids of the tags of user u.
TagIdsOf(u) == {t.id : t \in {x \in Tags : x.user_id = u}}

\* C23: every tag attached to a goal belongs to the goal's owner; a tag
\* assignment by a user who may edit the goal, the holder of an edit share
\* included, that names a tag which is not the owner's is answered with the
\* validation error 400 and leaves the goal's tags unchanged, and an
\* accepted assignment stores exactly the named tags, all of them the
\* owner's.
C23_TagsBelongToOwner ==
    /\ [](\A g \in GoalIds : goals[g].tags \subseteq TagIdsOf(goals[g].owner_id))
    /\ [][\A u \in Users, g \in GoalRefs, ts \in SUBSET TagIds :
            (g \in GoalIds /\ can_edit(g, u) /\ update_goal_tags(u, g, ts)) =>
               IF ts \subseteq TagIdsOf(goals[g].owner_id)
               THEN last'.code = 200 /\ goals'[g].tags = ts
               ELSE last'.code = 400 /\ goals' = goals]_vars

\* C23 witness: the holder of an edit share has just been refused the
\* assignment of a tag of their own to a goal that carries a tag of its
\* owner.
C23_Witness ==
    /\ last.op = "update_goal_tags" /\ last.code = 400
    /\ \E g \in GoalIds, u \in Users :
          /\ ~is_owner(g, u) /\ can_edit(g, u)
          /\ TagIdsOf(u) # {}
          /\ goals[g].tags # {}

\* C24: every goal's status is one of created, started, working, completed
\* and archived, and every subgoal's status is one of pending and achieved:
\* no update_goal or update_subgoal request stores another value.
C24_StatusDomains ==
    /\ \A g \in GoalIds : goals[g].status \in GoalStatuses
    /\ \A s \in SubgoalIds : subgoals[s].status \in SubgoalStatuses

GoalRequest(u, g) ==
    \/ \E s \in GoalStatusInputs \cup {Absent} : update_goal(u, g, s)
    \/ delete_goal(u, g)
    \/ archive_goal(u, g)
    \/ unarchive_goal(u, g)
    \/ \E t \in BOOLEAN : create_subgoal(u, g, t)
    \/ \E p \in BOOLEAN : add_progress(u, g, p)
    \/ \E e \in Emails \cup {Absent}, p \in PermissionInputs : share_goal(u, g, e, p)

\* A request of user u that names subgoal s: update_subgoal or
\* delete_subgoal.
SubgoalRequest(u, s) ==
    \/ \E st \in SubgoalStatusInputs \cup {Absent} : update_subgoal(u, s, st)
    \/ delete_subgoal(u, s)

\* C26: update_goal, delete_goal, archive_goal, unarchive_goal,
\* create_subgoal, add_progress and share_goal on a goal id that does not
\* exist, and update_subgoal and delete_subgoal on a subgoal id that does not
\* exist, are answered 404 and change no goal, subgoal, share or progress
\* entry.
C26_MissingIsNotFound ==
    [][/\ \A u \in Users, g \in AnyGoalRefs :
             (g \notin GoalIds /\ GoalRequest(u, g)) =>
                /\ last'.code = 404
                /\ goals' = goals /\ subgoals' = subgoals /\ shares' = shares
       /\ \A u \in Users, s \in AnySubgoalRefs :
             (s \notin SubgoalIds /\ SubgoalRequest(u, s)) =>
                /\ last'.code = 404
                /\ goals' = goals /\ subgoals' = subgoals /\ shares' = shares]_vars

\* C26 witness: a subgoal request has just been answered 404 while a goal
\* with a progress entry and a share exists and no subgoal does.
C26_Witness ==
    /\ last.op = "delete_subgoal" /\ last.code = 404
    /\ SubgoalIds = {}
    /\ \E g \in GoalIds : goals[g].progress_entries # {} /\ SharesOf(g) # {}

SubgoalsAfter(g) == {s \in DOMAIN subgoals' : subgoals'[s].goal_id = g}
AchievedAfter(g) == {s \in SubgoalsAfter(g) : subgoals'[s].status = "achieved"}

C28_NoDerivationOnCreateDelete ==
    [][/\ \A u \in Users, g \in GoalRefs, t \in BOOLEAN :
             create_subgoal(u, g, t) =>
                /\ goals' = goals
                /\ \A s \in SubgoalIds : s \in DOMAIN subgoals' /\ subgoals'[s] = subgoals[s]
                /\ last'.code = 201 =>
                      /\ Cardinality(DOMAIN subgoals' \ SubgoalIds) = 1
                      /\ \A s \in DOMAIN subgoals' \ SubgoalIds :
                            subgoals'[s].goal_id = g /\ subgoals'[s].status = "pending"
                /\ last'.code # 201 => subgoals' = subgoals
       /\ \A u \in Users, sid \in SubgoalRefs :
             delete_subgoal(u, sid) =>
                /\ goals' = goals
                /\ DOMAIN subgoals' = IF last'.code = 200 THEN SubgoalIds \ {sid}
                                      ELSE SubgoalIds
                /\ \A s \in DOMAIN subgoals' : subgoals'[s] = subgoals[s]]_vars

\* C28 witness: a subgoal has just been deleted and all the subgoals that
\* remain are achieved, while the goal is not completed.
C28_Witness ==
    /\ last.op = "delete_subgoal" /\ last.code = 200
    /\ \E g \in GoalIds :
          /\ SubgoalsOf(g) # {} /\ Achieved(g) = SubgoalsOf(g)
          /\ goals[g].status \in {"started", "working"}

SharingRequest(r, g, t) ==
    /\ session[r].pc \in {"share_checked", "share_flushed", "committed", "failed"}
    /\ session[r].goal_id = g
    /\ session[r].user_to_share_with = t

\* C30: when two share_goal requests of the owner for the same goal and the
\* same target user are served at the same time and both pass the check for
\* an existing share, there is never more than one GoalShare for the goal
\* and the user, at most one of the two requests creates it, and a request
\* that ends without creating it is answered with a failure and changes no
\* goal, subgoal or share.
C30_ConcurrentShareOnce ==
    /\ [](\A g \in GoalIds, t \in Users :
             /\ Cardinality(HeldShares(g, t)) <= 1
             /\ (\A r \in Requests : SharingRequest(r, g, t)) =>
                   /\ Cardinality({r \in Requests : session[r].pc = "committed"}) <= 1
                   /\ (\E r \in Requests : session[r].pc = "committed")
                         => Cardinality(HeldShares(g, t)) = 1)
    /\ [][\A r \in Requests :
            (session[r].pc \in {"share_checked", "share_flushed"}
               /\ session'[r].pc = "failed") =>
               /\ last'.op = "share_goal" /\ last'.code = 500
               /\ goals' = goals /\ subgoals' = subgoals /\ shares' = shares]_vars

\* C30 witness: two requests for the same goal and user both passed the
\* check; one has committed and the other, which sent its INSERT after that
\* commit, has failed; the goal has one share.
C30_Witness ==
    /\ last.op = "share_goal" /\ last.code = 500
    /\ \E g \in GoalIds, t \in Users :
          /\ \A r \in Requests : SharingRequest(r, g, t)
          /\ \E r \in Requests : session[r].pc = "committed"
          /\ \E r \in Requests : session[r].pc = "failed"
          /\ Cardinality(SharesOf(g)) = 1
====
